---- MODULE Spec2Model ----
(***************************************************************************)
(* A model of the TOS MCP server: the storage client adapter (TosResource)  *)
(* and the protocol handlers list_resources, read_resource and call_tool.   *)
(*                                                                          *)
(* A Python str is a sequence of one-character strings, a bytes value a     *)
(* sequence of numbers 0..255.  An exception is a record [type, status,     *)
(* msg].  The storage backend (the SDK client and the service behind it)    *)
(* is the environment: its buckets are fixed in Init, its objects are       *)
(* BackendObjects, and each SDK call fails or not by the fault the action   *)
(* draws.                                                                   *)
(***************************************************************************)
EXTENDS Integers, Sequences, FiniteSets, TLC

\* Bounds of the model.
MaxBuckets == 4
MaxEnvNames == 2

-----------------------------------------------------------------------------
\* Python str and list helpers.

StartsWith(s, p) == Len(s) >= Len(p) /\ SubSeq(s, 1, Len(p)) = p

EndsWith(s, p) == Len(s) >= Len(p) /\ SubSeq(s, Len(s) - Len(p) + 1, Len(s)) = p

Uppers == <<"A", "B", "C", "D", "E", "F", "G", "H", "I", "J", "K", "L", "M", "N", "O", "P", "Q", "R", "S", "T", "U", "V", "W", "X", "Y", "Z">>

Lowers == <<"a", "b", "c", "d", "e", "f", "g", "h", "i", "j", "k", "l", "m", "n", "o", "p", "q", "r", "s", "t", "u", "v", "w", "x", "y", "z">>

LowerChar(c) ==
    IF \E i \in 1..Len(Uppers) : Uppers[i] = c
    THEN Lowers[CHOOSE i \in 1..Len(Uppers) : Uppers[i] = c]
    ELSE c

Lower(s) == [i \in 1..Len(s) |-> LowerChar(s[i])]

\* Index of the first occurrence of character c in s, 0 when there is none.
Find(s, c) ==
    IF \E i \in 1..Len(s) : s[i] = c
    THEN CHOOSE i \in 1..Len(s) : s[i] = c /\ \A j \in 1..(i - 1) : s[j] # c
    ELSE 0

\* s.split(c)
RECURSIVE Split(_, _)
Split(s, c) ==
    LET i == Find(s, c) IN
    IF i = 0 THEN <<s>>
    ELSE <<SubSeq(s, 1, i - 1)>> \o Split(SubSeq(s, i + 1, Len(s)), c)

\* s.split(c, 1)
Split1(s, c) ==
    LET i == Find(s, c) IN
    IF i = 0 THEN <<s>>
    ELSE <<SubSeq(s, 1, i - 1), SubSeq(s, i + 1, Len(s))>>

\* s.strip()
RECURSIVE Strip(_)
Strip(s) ==
    IF Len(s) = 0 THEN s
    ELSE IF Head(s) = " " THEN Strip(Tail(s))
    ELSE IF s[Len(s)] = " " THEN Strip(SubSeq(s, 1, Len(s) - 1))
    ELSE s

InList(x, l) == \E i \in 1..Len(l) : l[i] = x

RECURSIVE Concat(_)
Concat(ss) == IF Len(ss) = 0 THEN <<>> ELSE Head(ss) \o Concat(Tail(ss))

\* sep.join(ss)
RECURSIVE Join(_, _)
Join(ss, sep) ==
    IF Len(ss) = 0 THEN <<>>
    ELSE IF Len(ss) = 1 THEN ss[1]
    ELSE ss[1] \o sep \o Join(Tail(ss), sep)

\* Whether pat occurs in s.
Contains(s, pat) ==
    \E i \in 1..(Len(s) - Len(pat) + 1) : SubSeq(s, i, i + Len(pat) - 1) = pat

-----------------------------------------------------------------------------
\* base64.b64encode, and bytes.decode('utf-8') of its output.

B64Alphabet == <<"A", "B", "C", "D", "E", "F", "G", "H", "I", "J", "K", "L", "M", "N", "O", "P", "Q", "R", "S", "T", "U", "V", "W", "X", "Y", "Z", "a", "b", "c", "d", "e", "f", "g", "h", "i", "j", "k", "l", "m", "n", "o", "p", "q", "r", "s", "t", "u", "v", "w", "x", "y", "z", "0", "1", "2", "3", "4", "5", "6", "7", "8", "9", "+", "/">>

B64Char(n) == B64Alphabet[n + 1]

RECURSIVE b64encode(_)
b64encode(bs) ==
    IF Len(bs) = 0 THEN <<>>
    ELSE IF Len(bs) = 1 THEN
        <<B64Char(bs[1] \div 4), B64Char((bs[1] % 4) * 16), "=", "=">>
    ELSE IF Len(bs) = 2 THEN
        <<B64Char(bs[1] \div 4), B64Char((bs[1] % 4) * 16 + (bs[2] \div 16)),
          B64Char((bs[2] % 16) * 4), "=">>
    ELSE
        <<B64Char(bs[1] \div 4), B64Char((bs[1] % 4) * 16 + (bs[2] \div 16)),
          B64Char((bs[2] % 16) * 4 + (bs[3] \div 64)), B64Char(bs[3] % 64)>>
        \o b64encode(SubSeq(bs, 4, Len(bs)))

\* str(b) of a bytes value b whose bytes are printable ASCII without quotes,
\* as every base64 output is: b'...'
StrOfBytes(chars) == <<"b", "'">> \o chars \o <<"'">>

\* The ASCII bytes the stored objects use, and their characters.
AsciiBytes == <<33, 104, 105>>

AsciiChars == <<"!", "h", "i">>

\* bytes.decode('utf-8'): ok is FALSE where Python raises UnicodeDecodeError.
\* The stored objects hold ASCII bytes and the byte 255, which starts no
\* UTF-8 sequence.
Utf8Decode(bs) ==
    IF \A i \in 1..Len(bs) : \E j \in 1..Len(AsciiBytes) : AsciiBytes[j] = bs[i]
    THEN [ok |-> TRUE,
          val |-> [i \in 1..Len(bs) |->
                     AsciiChars[CHOOSE j \in 1..Len(AsciiBytes) : AsciiBytes[j] = bs[i]]]]
    ELSE [ok |-> FALSE, val |-> <<>>]

-----------------------------------------------------------------------------
\* The storage backend.

BucketNames == {<<"a">>, <<"b">>, <<"c">>, <<"d", "1">>}

\* The objects of each bucket, in listing order; an object's content is the
\* chunks its body stream yields.
BackendObjects(bucket) ==
    CASE bucket = <<"a">> ->
            <<[key |-> <<"a", ".", "t", "x", "t">>, chunks |-> <<<<104>>, <<105>>>>],
              [key |-> <<"c", ".", "b", "i", "n">>, chunks |-> <<<<104, 105>>>>]>>
      [] bucket = <<"b">> ->
            <<[key |-> <<"B", ".", "T", "X", "T">>, chunks |-> <<<<104>>>>],
              [key |-> <<"n", "o", "e", "x", "t">>, chunks |-> <<>>]>>
      [] bucket = <<"c">> ->
            <<[key |-> <<"d", "/", "e", ".", "m", "d">>, chunks |-> <<<<104, 105, 33>>, <<33>>>>],
              [key |-> <<"a", ".", "t", "x", "t">>, chunks |-> <<<<255>>>>],
              [key |-> <<"m", "d">>, chunks |-> <<<<255, 104>>>>]>>
      [] bucket = <<"d", "1">> ->
            <<[key |-> <<"f", ".", "j", "s", "o", "n", ".", "b", "a", "k">>, chunks |-> <<<<105>>>>]>>
      [] OTHER -> <<>>

ObjectKeys == {<<"a", ".", "t", "x", "t">>, <<"c", ".", "b", "i", "n">>, <<"B", ".", "T", "X", "T">>, <<"n", "o", "e", "x", "t">>, <<"d", "/", "e", ".", "m", "d">>, <<"m", "d">>, <<"f", ".", "j", "s", "o", "n", ".", "b", "a", "k">>}

\* The values of the environment variable TOS_BUCKETS; NoneValue is "unset".
NoneValue == <<"None">>

EnvNames == {<<"a">>, <<" ", "c", " ">>, <<>>}

RECURSIVE SeqsUpTo(_, _)
SeqsUpTo(S, n) ==
    IF n = 0 THEN {<<>>}
    ELSE LET shorter == SeqsUpTo(S, n - 1) IN
         shorter \cup {Append(s, x) : s \in shorter, x \in S}

NoDuplicates(s) == \A i, j \in 1..Len(s) : i # j => s[i] # s[j]

TosBucketsValues ==
    {NoneValue} \cup {Join(l, <<",">>) : l \in SeqsUpTo(EnvNames, MaxEnvNames)}

\* The faults an SDK call can meet.
Faults == {"none", "http500", "client"}

\* The faults of an SDK call that call_tool makes with **args: also a
\* keyword the SDK method does not take.
ToolFaults == Faults \cup {"badargs"}

NoExc == [type |-> "", status |-> 0, msg |-> <<>>]

\* The exception the SDK raises under a fault.
SdkError(fault) ==
    CASE fault = "http500" ->
            [type |-> "TosServerError", status |-> 500, msg |-> <<"I", "n", "t", "e", "r", "n", "a", "l", "E", "r", "r", "o", "r">>]
      [] fault = "http404" ->
            [type |-> "TosServerError", status |-> 404, msg |-> <<"N", "o", "S", "u", "c", "h", "K", "e", "y">>]
      [] fault = "client" ->
            [type |-> "TosClientError", status |-> 0, msg |-> <<"c", "o", "n", "n", "e", "c", "t", "i", "o", "n", " ", "f", "a", "i", "l", "e", "d">>]
      [] fault = "badargs" ->
            [type |-> "TypeError", status |-> 0, msg |-> <<"u", "n", "e", "x", "p", "e", "c", "t", "e", "d", " ", "k", "e", "y", "w", "o", "r", "d", " ", "a", "r", "g", "u", "m", "e", "n", "t">>]
      [] OTHER -> NoExc

-----------------------------------------------------------------------------
VARIABLES
    backendBuckets,       \* the buckets the service lists, in its order
    configured_buckets,   \* TosResource.configured_buckets, the allow-list
    pc,                   \* "idle" | "gather" | "responded"
    req,                  \* the request being served
    resp,                 \* its response
    calls,                \* the SDK calls made while serving it
    lrBuckets,            \* list_resources: buckets
    taskSt,               \* list_resources: state of each process_bucket task
    gatherExc,            \* list_resources: the first exception a task raised
    resources,            \* list_resources: resources
    sem                   \* list_resources: the value of sem

vars == <<backendBuckets, configured_buckets, pc, req, resp, calls,
          lrBuckets, taskSt, gatherExc, resources, sem>>

NoReq == [op |-> "", uri |-> <<>>, name |-> "", bucket |-> <<>>, key |-> <<>>]

NoResp == [kind |-> "", exc |-> NoExc, text |-> <<>>, buckets |-> <<>>,
           resources |-> <<>>, log |-> ""]

Return(field, value) ==
    IF field = "text" THEN [NoResp EXCEPT !.kind = "return", !.text = value]
    ELSE IF field = "buckets" THEN [NoResp EXCEPT !.kind = "return", !.buckets = value]
    ELSE [NoResp EXCEPT !.kind = "return", !.resources = value]

Raise(exc, log) == [NoResp EXCEPT !.kind = "raise", !.exc = exc, !.log = log]

-----------------------------------------------------------------------------
\* TosResource

\* _get_configured_buckets
GetConfiguredBuckets(bucket_list) ==
    IF bucket_list # NoneValue /\ bucket_list # <<>>
    THEN LET parts == Split(bucket_list, ",") IN
         [i \in 1..Len(parts) |-> Strip(parts[i])]
    ELSE <<>>

\* A slip in the filter: it walks the allow-list instead of the response.
FilterBuckets_Mut(buckets, allow) ==
    IF allow # <<>>
    THEN SelectSeq(allow, LAMBDA b : InList(b, buckets))
    ELSE buckets

\* What list_buckets returns of response.buckets under the allow-list.
FilterBuckets(buckets, allow) ==
    IF allow # <<>>
    THEN SelectSeq(buckets, LAMBDA b : InList(b, allow))
    ELSE buckets

\* list_buckets: [ok, exc, val]
list_buckets(fault) ==
    IF fault # "none"
    THEN [ok |-> FALSE, exc |-> SdkError(fault), val |-> <<>>]
    ELSE [ok |-> TRUE, exc |-> NoExc,
          val |-> FilterBuckets(backendBuckets, configured_buckets)]

\* What the service holds under (bucket, key): the object's index, or 0.
ObjectIndex(bucket, key) ==
    IF ~InList(bucket, backendBuckets) THEN 0
    ELSE LET objs == BackendObjects(bucket) IN
         IF \E i \in 1..Len(objs) : objs[i].key = key
         THEN CHOOSE i \in 1..Len(objs) : objs[i].key = key
         ELSE 0

\* The fault of client.get_object(bucket, key): the one drawn, or the
\* service's 404 for an object it does not hold.
GetFault(bucket, key, fault) ==
    IF fault = "none" /\ ObjectIndex(bucket, key) = 0 THEN "http404" ELSE fault

\* list_objects: [ok, exc, val], val the keys of the page
list_objects(bucket, fault) ==
    IF fault # "none"
    THEN [ok |-> FALSE, exc |-> SdkError(fault), val |-> <<>>]
    ELSE LET objs == BackendObjects(bucket) IN
         [ok |-> TRUE, exc |-> NoExc, val |-> [i \in 1..Len(objs) |-> objs[i].key]]

\* The exception get_object raises for a TosServerError e.
GetObjectError(e, bucket, key) ==
    IF e.type = "TosServerError" /\ e.status = 404
    THEN [type |-> "ValueError", status |-> 0,
          msg |-> <<"O", "b", "j", "e", "c", "t", " ">> \o key \o <<" ", "n", "o", "t", " ", "f", "o", "u", "n", "d", " ", "i", "n", " ">> \o bucket]
    ELSE e

\* The content get_object accumulates from the body's chunks.
ReadBody(chunks) == Concat(chunks)

\* get_object: [ok, exc, val], val the content
get_object(bucket, key, fault) ==
    LET f == GetFault(bucket, key, fault) IN
    IF f # "none"
    THEN [ok |-> FALSE, exc |-> GetObjectError(SdkError(f), bucket, key), val |-> <<>>]
    ELSE [ok |-> TRUE, exc |-> NoExc,
          val |-> ReadBody(BackendObjects(bucket)[ObjectIndex(bucket, key)].chunks)]

TextExts == {<<".", "t", "x", "t">>, <<".", "l", "o", "g">>, <<".", "c", "s", "v">>, <<".", "j", "s", "o", "n">>, <<".", "x", "m", "l">>, <<".", "m", "d">>}

\* A slip in is_text_file: the key is not lowercased.
is_text_file_Mut(key) == \E ext \in TextExts : EndsWith(key, ext)

is_text_file(key) == \E ext \in TextExts : EndsWith(Lower(key), ext)

-----------------------------------------------------------------------------
Init ==
    /\ backendBuckets \in {s \in SeqsUpTo(BucketNames, MaxBuckets) : NoDuplicates(s)}
    /\ \E v \in TosBucketsValues : configured_buckets = GetConfiguredBuckets(v)
    /\ pc = "idle"
    /\ req = NoReq
    /\ resp = NoResp
    /\ calls = <<>>
    /\ lrBuckets = <<>>
    /\ taskSt = <<>>
    /\ gatherExc = NoExc
    /\ resources = <<>>
    /\ sem = 0

Call(api, bucket, key, status) ==
    [api |-> api, bucket |-> bucket, key |-> key, status |-> status]

StatusOf(fault) == IF fault = "none" THEN 200 ELSE SdkError(fault).status

lrVars == <<lrBuckets, taskSt, gatherExc, resources, sem>>

cfgVars == <<backendBuckets, configured_buckets>>

\* A request to the adapter's list_buckets.
ListBuckets(fault) ==
    /\ pc = "idle"
    /\ LET r == list_buckets(fault) IN
       /\ req' = [NoReq EXCEPT !.op = "list_buckets"]
       /\ calls' = <<Call("list_buckets", <<>>, <<>>, StatusOf(fault))>>
       /\ resp' = IF r.ok THEN Return("buckets", r.val) ELSE Raise(r.exc, "")
    /\ pc' = "responded"
    /\ UNCHANGED <<cfgVars, lrVars>>

-----------------------------------------------------------------------------
\* list_resources

\* The Resource process_bucket appends for an object.
ResourceUri(bucket, key) == <<"t", "o", "s", ":", "/", "/">> \o bucket \o <<"/">> \o key

MimeType(key) ==
    IF is_text_file(key) THEN "text/plain" ELSE "application/octet-stream"

Resource(bucket, key) ==
    [uri |-> ResourceUri(bucket, key), name |-> key, mimeType |-> MimeType(key)]

\* asyncio.Semaphore(3)
SemaphoreValue == 3

\* list_resources up to its await of gather: list_buckets, then one
\* process_bucket task per bucket, all created by the one gather call made
\* while list_resources itself holds sem.
ListResourcesStart(fault) ==
    /\ pc = "idle"
    /\ req' = [NoReq EXCEPT !.op = "list_resources"]
    /\ calls' = <<Call("list_buckets", <<>>, <<>>, StatusOf(fault))>>
    /\ LET r == list_buckets(fault) IN
       IF r.ok
       THEN /\ lrBuckets' = r.val
            /\ taskSt' = [i \in 1..Len(r.val) |-> "pending"]
            /\ sem' = SemaphoreValue - 1
            /\ pc' = "gather"
            /\ resp' = NoResp
       ELSE /\ resp' = Raise(r.exc, "Resource listing failed")
            /\ pc' = "responded"
            /\ UNCHANGED <<lrBuckets, taskSt, sem>>
    /\ UNCHANGED <<cfgVars, gatherExc, resources>>

\* The resources one process_bucket run appends for the keys listed.
BucketResources(bucket, keys) == [j \in 1..Len(keys) |-> Resource(bucket, keys[j])]

\* One process_bucket task runs: list_objects is an SDK call made without
\* suspending, so the task's body is one step of the event loop.
ProcessBucket(i, fault) ==
    /\ i \in 1..Len(taskSt)
    /\ taskSt[i] = "pending"
    /\ calls' = Append(calls, Call("list_objects", lrBuckets[i], <<>>, StatusOf(fault)))
    /\ LET r == list_objects(lrBuckets[i], fault) IN
       IF r.ok
       THEN /\ resources' = resources \o BucketResources(lrBuckets[i], r.val)
            /\ taskSt' = [taskSt EXCEPT ![i] = "done"]
            /\ UNCHANGED gatherExc
       ELSE /\ taskSt' = [taskSt EXCEPT ![i] = "failed"]
            /\ gatherExc' = IF gatherExc = NoExc THEN r.exc ELSE gatherExc
            /\ UNCHANGED resources
    /\ UNCHANGED <<cfgVars, pc, req, resp, lrBuckets, sem>>

\* A slip in the gather call: return_exceptions=True, so that a failed
\* task's exception is a result and gather returns when all have ended.
GatherOutcome_Mut(st) ==
    IF \A i \in 1..Len(st) : st[i] # "pending" THEN "return" ELSE "wait"

\* What the awaited gather does given the tasks' states: "raise" as soon
\* as a task has failed, "return" when all are done, else "wait".
GatherOutcome(st) ==
    IF \E i \in 1..Len(st) : st[i] = "failed" THEN "raise"
    ELSE IF \A i \in 1..Len(st) : st[i] = "done" THEN "return"
    ELSE "wait"

\* gather raised: sem is released, the error is logged and re-raised.
ListResourcesRaise ==
    /\ pc = "gather"
    /\ GatherOutcome(taskSt) = "raise"
    /\ resp' = Raise(gatherExc, "Resource listing failed")
    /\ sem' = sem + 1
    /\ pc' = "responded"
    /\ UNCHANGED <<cfgVars, req, calls, lrBuckets, taskSt, gatherExc, resources>>

\* gather returned: sem is released and resources is returned.
ListResourcesReturn ==
    /\ pc = "gather"
    /\ GatherOutcome(taskSt) = "return"
    /\ resp' = Return("resources", resources)
    /\ sem' = sem + 1
    /\ pc' = "responded"
    /\ UNCHANGED <<cfgVars, req, calls, lrBuckets, taskSt, gatherExc, resources>>

-----------------------------------------------------------------------------
\* read_resource

InvalidTosUri == [type |-> "ValueError", status |-> 0, msg |-> <<"I", "n", "v", "a", "l", "i", "d", " ", "T", "O", "S", " ", "U", "R", "I", " ", "f", "o", "r", "m", "a", "t">>]

UnpackError ==
    [type |-> "ValueError", status |-> 0,
     msg |-> <<"n", "o", "t", " ", "e", "n", "o", "u", "g", "h", " ", "v", "a", "l", "u", "e", "s", " ", "t", "o", " ", "u", "n", "p", "a", "c", "k", " ", "(", "e", "x", "p", "e", "c", "t", "e", "d", " ", "2", ",", " ", "g", "o", "t", " ", "1", ")">>]

\* A slip in the prefix test: "://" anywhere in the URI is accepted.
HasTosPrefix_Mut(uri) == Contains(uri, <<":", "/", "/">>)

HasTosPrefix(uri) == StartsWith(uri, <<"t", "o", "s", ":", "/", "/">>)

\* Index of the last occurrence of character c in s, 0 when there is none.
FindLast(s, c) ==
    IF \E i \in 1..Len(s) : s[i] = c
    THEN CHOOSE i \in 1..Len(s) : s[i] = c /\ \A j \in (i + 1)..Len(s) : s[j] # c
    ELSE 0

\* A slip in the split: path.rsplit("/", 1)
ParseUri_Mut(uri) ==
    LET path == SubSeq(uri, 7, Len(uri))
        i == FindLast(path, "/")
    IN IF i = 0 THEN <<path>>
       ELSE <<SubSeq(path, 1, i - 1), SubSeq(path, i + 1, Len(path))>>

\* path = uri[6:]; path.split("/", 1)
ParseUri(uri) == Split1(SubSeq(uri, 7, Len(uri)), "/")

\* What read_resource returns for the content of an object under key.
ReadResult(key, content) ==
    IF is_text_file(key) THEN b64encode(content)
    ELSE StrOfBytes(b64encode(content))

\* The except clause that logs an exception raised in read_resource's try.
ReadHandlerLog(exc) ==
    IF exc.type = "ValueError" THEN "URI parsing error" ELSE "Read resource failed"

\* read_resource(uri): [resp, calls]
read_resource(uri, fault) ==
    IF ~HasTosPrefix(uri)
    THEN [resp |-> Raise(InvalidTosUri, ReadHandlerLog(InvalidTosUri)), calls |-> <<>>]
    ELSE LET parts == ParseUri(uri) IN
         IF Len(parts) # 2
         THEN [resp |-> Raise(UnpackError, ReadHandlerLog(UnpackError)), calls |-> <<>>]
         ELSE LET bucket == parts[1]
                  key == parts[2]
                  r == get_object(bucket, key, fault)
                  made == <<Call("get_object", bucket, key,
                                 StatusOf(GetFault(bucket, key, fault)))>>
              IN IF r.ok
                 THEN [resp |-> Return("text", ReadResult(key, r.val)), calls |-> made]
                 ELSE [resp |-> Raise(r.exc, ReadHandlerLog(r.exc)), calls |-> made]

\* The URIs requested: those list_resources can build, and malformed ones.
UriBuckets == {<<"a">>, <<"c">>, <<"d", "1">>}

UriKeys == ObjectKeys \cup {<<"n", "o", "p", "e">>}

UriInputs ==
    {ResourceUri(b, k) : b \in UriBuckets, k \in UriKeys}
    \cup {<<"h", "t", "t", "p", ":", "/", "/", "b", "/", "k">>, <<"t", "o", "s", ":", "/", "/", "a">>, <<"t", "o", "s", ":", "/", "a", "/", "a", ".", "t", "x", "t">>, <<"a", "/", "t", "o", "s", ":", "/", "/", "a", "/", "a", ".", "t", "x", "t">>, <<>>}

ReadResource(uri, fault) ==
    /\ pc = "idle"
    /\ LET r == read_resource(uri, fault) IN
       /\ resp' = r.resp
       /\ calls' = r.calls
    /\ req' = [NoReq EXCEPT !.op = "read_resource", !.uri = uri]
    /\ pc' = "responded"
    /\ UNCHANGED <<cfgVars, lrVars>>

\* A request to the adapter's get_object.
GetObject(bucket, key, fault) ==
    /\ pc = "idle"
    /\ LET r == get_object(bucket, key, fault) IN
       resp' = IF r.ok THEN Return("text", r.val) ELSE Raise(r.exc, "")
    /\ calls' = <<Call("get_object", bucket, key, StatusOf(GetFault(bucket, key, fault)))>>
    /\ req' = [NoReq EXCEPT !.op = "get_object", !.bucket = bucket, !.key = key]
    /\ pc' = "responded"
    /\ UNCHANGED <<cfgVars, lrVars>>

-----------------------------------------------------------------------------
\* call_tool

UnsupportedOperation ==
    [type |-> "ValueError", status |-> 0, msg |-> <<"U", "n", "s", "u", "p", "p", "o", "r", "t", "e", "d", " ", "o", "p", "e", "r", "a", "t", "i", "o", "n">>]

UnicodeDecodeError ==
    [type |-> "UnicodeDecodeError", status |-> 0, msg |-> <<"i", "n", "v", "a", "l", "i", "d", " ", "s", "t", "a", "r", "t", " ", "b", "y", "t", "e">>]

ValidationError ==
    [type |-> "ValidationError", status |-> 0, msg |-> <<"t", "y", "p", "e", ":", " ", "F", "i", "e", "l", "d", " ", "r", "e", "q", "u", "i", "r", "e", "d">>]

\* mcp.types.TextContent(type=..., text=...): the model validates its
\* fields; type is required and must be "text".  NoneValue is "not given".
TextContent(type, text) ==
    IF type = <<"t", "e", "x", "t">>
    THEN [ok |-> TRUE, exc |-> NoExc, val |-> text]
    ELSE [ok |-> FALSE, exc |-> ValidationError, val |-> <<>>]

\* str(l) of a list of str
StrOfList(l) ==
    <<"[">> \o Join([i \in 1..Len(l) |-> <<"'">> \o l[i] \o <<"'">>], <<",", " ">>) \o <<"]">>

\* str(objects) of the SDK's listing output: the SDK's own representation,
\* of which the model keeps the keys.
StrOfListing(keys) == <<"<">> \o Join(keys, <<" ">>) \o <<">">>

\* The body of call_tool's try for a tool name: [ok, exc, val] of the
\* TextContent it builds, or of what it raises.
ToolBody(name, bucket, key, fault) ==
    CASE name = "ListBuckets" ->
            IF fault # "none"
            THEN [ok |-> FALSE, exc |-> SdkError(fault), val |-> <<>>]
            ELSE TextContent(<<"t", "e", "x", "t">>, StrOfList(backendBuckets))
      [] name = "ListObjectsV2" ->
            LET f == IF fault = "none" /\ ~InList(bucket, backendBuckets)
                     THEN "http404" ELSE fault
            IN IF f # "none"
               THEN [ok |-> FALSE, exc |-> SdkError(f), val |-> <<>>]
               ELSE TextContent(<<"t", "e", "x", "t">>, StrOfListing(list_objects(bucket, f).val))
      [] name = "GetObject" ->
            LET f == GetFault(bucket, key, fault) IN
            IF f # "none"
            THEN [ok |-> FALSE, exc |-> SdkError(f), val |-> <<>>]
            ELSE LET body == ReadBody(BackendObjects(bucket)[ObjectIndex(bucket, key)].chunks)
                     d == Utf8Decode(body)
                 IN IF d.ok THEN TextContent(<<"t", "e", "x", "t">>, d.val)
                    ELSE [ok |-> FALSE, exc |-> UnicodeDecodeError, val |-> <<>>]
      [] OTHER -> [ok |-> FALSE, exc |-> UnsupportedOperation, val |-> <<>>]

\* The except clause of call_tool: TextContent(text=f"Error: {str(e)}")
ToolErrorResult(e) == TextContent(NoneValue, <<"E", "r", "r", "o", "r", ":", " ">> \o e.msg)

\* call_tool(name, args): the response
call_tool(name, bucket, key, fault) ==
    LET r == ToolBody(name, bucket, key, fault) IN
    IF r.ok THEN Return("text", r.val)
    ELSE LET h == ToolErrorResult(r.exc) IN
         IF h.ok THEN Return("text", h.val) ELSE Raise(h.exc, "")

\* The SDK call a tool makes.
ToolCall(name, bucket, key, fault) ==
    CASE name = "ListBuckets" -> <<Call("list_buckets", <<>>, <<>>, StatusOf(fault))>>
      [] name = "ListObjectsV2" ->
            <<Call("list_objects", bucket, <<>>,
                   StatusOf(IF fault = "none" /\ ~InList(bucket, backendBuckets)
                            THEN "http404" ELSE fault))>>
      [] name = "GetObject" ->
            <<Call("get_object", bucket, key, StatusOf(GetFault(bucket, key, fault)))>>
      [] OTHER -> <<>>

ToolNames == {"ListBuckets", "ListObjectsV2", "GetObject", "Nonexistent"}

ToolBuckets == {<<"a">>, <<"c">>}

ToolKeys == {<<"a", ".", "t", "x", "t">>, <<"d", "/", "e", ".", "m", "d">>, <<"n", "o", "p", "e">>}

CallTool(name, bucket, key, fault) ==
    /\ pc = "idle"
    /\ resp' = call_tool(name, bucket, key, fault)
    /\ calls' = ToolCall(name, bucket, key, fault)
    /\ req' = [NoReq EXCEPT !.op = "call_tool", !.name = name,
                            !.bucket = bucket, !.key = key]
    /\ pc' = "responded"
    /\ UNCHANGED <<cfgVars, lrVars>>

-----------------------------------------------------------------------------
\* The response is written to the transport; the server takes the next request.
Respond ==
    /\ pc = "responded"
    /\ pc' = "idle"
    /\ req' = NoReq
    /\ resp' = NoResp
    /\ calls' = <<>>
    /\ lrBuckets' = <<>>
    /\ taskSt' = <<>>
    /\ gatherExc' = NoExc
    /\ resources' = <<>>
    /\ sem' = 0
    /\ UNCHANGED cfgVars

-----------------------------------------------------------------------------
\* The claims.

Range(s) == {s[i] : i \in 1..Len(s)}

Responded(op) == pc = "responded" /\ req.op = op

FailedCalls == {i \in 1..Len(calls) : calls[i].status # 200}

TosPrefix == <<"t", "o", "s", ":", "/", "/">>

\* C1: when the allow-list is not empty, no response of any operation names
\* a bucket that is not in it: not list_buckets' result, not a listed
\* resource's URI, not the text call_tool("ListBuckets") returns.
C1_AllowListInvariant ==
    (pc = "responded" /\ configured_buckets # <<>>) =>
        \A b \in BucketNames :
            ~InList(b, configured_buckets) =>
                /\ ~InList(b, resp.buckets)
                /\ \A i \in 1..Len(resp.resources) :
                       ~StartsWith(resp.resources[i].uri, TosPrefix \o b \o <<"/">>)
                /\ (req.op = "call_tool" /\ req.name = "ListBuckets")
                       => ~Contains(resp.text, <<"'">> \o b \o <<"'">>)

\* The content the service holds for the object read_resource was asked for.
RequestedContent ==
    LET p == ParseUri(req.uri) IN
    Concat(BackendObjects(p[1])[ObjectIndex(p[1], p[2])].chunks)

\* C2: read_resource of an existing object returns the base64 encoding of
\* its content as a plain string (b"hi" gives "aGk="), whether the key is a
\* text key or not.
C2_ReadReturnsBase64 ==
    (Responded("read_resource") /\ resp.kind = "return") =>
        /\ resp.text = b64encode(RequestedContent)
        /\ RequestedContent = <<104, 105>> => resp.text = <<"a", "G", "k", "=">>

\* C3: call_tool never raises: every failure in it ends in a returned text
\* that starts with "Error: ", and an unknown tool name in
\* "Error: Unsupported operation".
C3_CallToolNeverRaises ==
    Responded("call_tool") =>
        /\ resp.kind = "return"
        /\ FailedCalls # {} => StartsWith(resp.text, <<"E", "r", "r", "o", "r", ":", " ">>)
        /\ req.name = "Nonexistent" => resp.text = <<"E", "r", "r", "o", "r", ":", " ", "U", "n", "s", "u", "p", "p", "o", "r", "t", "e", "d", " ", "o", "p", "e", "r", "a", "t", "i", "o", "n">>

\* The process_bucket tasks that gather has created and that have not ended.
InFlight == {i \in 1..Len(taskSt) : taskSt[i] = "pending"}

\* C4: during list_resources at most 3 per-bucket listing tasks are in
\* flight at the same time.
C4_AtMostThreeInFlight == Cardinality(InFlight) <= 3

\* C5: list_resources is all-or-nothing: when list_buckets or the listing
\* of any bucket has failed, the call raises that error and returns no
\* resource, whatever the other tasks appended; no SDK call is made twice.
C5_AllOrNothing ==
    Responded("list_resources") =>
        /\ FailedCalls # {} =>
              /\ resp.kind = "raise"
              /\ resp.resources = <<>>
              /\ \E i \in FailedCalls :
                     /\ resp.exc.status = calls[i].status
                     /\ resp.exc.type \in {"TosServerError", "TosClientError"}
        /\ \A i, j \in 1..Len(calls) :
              (i # j /\ calls[i].api = calls[j].api) => calls[i].bucket # calls[j].bucket

\* C5's case: a bucket's listing failed after another had appended resources.
C5_Witness ==
    /\ Responded("list_resources")
    /\ resp.kind = "raise"
    /\ resources # <<>>
    /\ \E i \in FailedCalls : calls[i].api = "list_objects"
    /\ Len(calls) >= 3

\* C6: a URI that does not start with "tos://" makes read_resource fail with
\* the invalid-URI error, with no SDK call made.
C6_BadPrefixNoBackendCall ==
    (Responded("read_resource") /\ ~StartsWith(req.uri, TosPrefix)) =>
        /\ resp.kind = "raise"
        /\ resp.exc.type = "ValueError"
        /\ resp.exc.msg = <<"I", "n", "v", "a", "l", "i", "d", " ", "T", "O", "S", " ", "U", "R", "I", " ", "f", "o", "r", "m", "a", "t">>
        /\ calls = <<>>

\* C6's case: read_resource("http://b/k") has answered.
C6_Witness == Responded("read_resource") /\ req.uri = <<"h", "t", "t", "p", ":", "/", "/", "b", "/", "k">>

\* C7: get_object turns the backend's 404 into a not-found error of a kind
\* of its own, distinct from the invalid-URI error and from the storage
\* error; every other backend error is re-raised unchanged; a success
\* returns the whole content.
C7_NotFoundDistinct ==
    (pc = "responded" /\ req.op \in {"get_object", "read_resource"} /\ calls # <<>>) =>
        /\ calls[1].status = 404 =>
              /\ resp.kind = "raise"
              /\ resp.exc.type # InvalidTosUri.type
              /\ resp.exc.type # "TosServerError"
        /\ calls[1].status \notin {200, 404} =>
              /\ resp.kind = "raise"
              /\ resp.exc.status = calls[1].status
              /\ resp.exc.type \in {"TosServerError", "TosClientError"}
        /\ calls[1].status = 200 => resp.kind = "return"

RECURSIVE IsSubsequence(_, _)
IsSubsequence(s, t) ==
    IF s = <<>> THEN TRUE
    ELSE IF t = <<>> THEN FALSE
    ELSE IF Head(s) = Head(t) THEN IsSubsequence(Tail(s), Tail(t))
    ELSE IsSubsequence(s, Tail(t))

\* C8: list_buckets returns the backend's buckets whose name is in the
\* allow-list when that is not empty, and all of them when it is, in the
\* backend's order, none duplicated or dropped.
C8_ListBucketsFilter ==
    (Responded("list_buckets") /\ resp.kind = "return") =>
        IF configured_buckets = <<>>
        THEN resp.buckets = backendBuckets
        ELSE /\ IsSubsequence(resp.buckets, backendBuckets)
             /\ NoDuplicates(resp.buckets)
             /\ Range(resp.buckets) = Range(backendBuckets) \cap Range(configured_buckets)

\* C8's case: an allow-list that keeps some buckets and drops others, given
\* in another order than the backend's.
C8_Witness ==
    /\ Responded("list_buckets")
    /\ Len(resp.buckets) = 2
    /\ Len(backendBuckets) = 4
    /\ configured_buckets[1] = resp.buckets[2]

\* The buckets list_resources is to list.
ListedBuckets ==
    {b \in Range(backendBuckets) :
        configured_buckets = <<>> \/ b \in Range(configured_buckets)}

\* The Resource the specification gives an object.
ExpectedResource(b, k) ==
    [uri |-> TosPrefix \o b \o <<"/">> \o k,
     name |-> k,
     mimeType |->
        IF \E e \in {<<".", "t", "x", "t">>, <<".", "l", "o", "g">>, <<".", "c", "s", "v">>, <<".", "j", "s", "o", "n">>, <<".", "x", "m", "l">>, <<".", "m", "d">>} :
              /\ Len(k) >= Len(e)
              /\ \A i \in 1..Len(e) : LowerChar(k[Len(k) - Len(e) + i]) = e[i]
        THEN "text/plain" ELSE "application/octet-stream"]

ExpectedResources ==
    {ExpectedResource(b, BackendObjects(b)[j].key) :
        <<b, j>> \in {<<b, j>> \in ListedBuckets \X (1..3) : j <= Len(BackendObjects(b))}}

\* C9: when nothing fails, list_resources returns one Resource for each
\* object of each listed bucket, none missing and none twice, with its URI,
\* its key as name and the MIME type of its extension, in whatever order
\* the tasks ran.
C9_OneResourcePerObject ==
    (Responded("list_resources") /\ resp.kind = "return") =>
        /\ Range(resp.resources) = ExpectedResources
        /\ Len(resp.resources) = Cardinality(ExpectedResources)

\* C9's case: three buckets or more listed, the tasks not run in the
\* buckets' order, an upper-case text key among the resources.
C9_Witness ==
    /\ Responded("list_resources")
    /\ resp.kind = "return"
    /\ Len(lrBuckets) >= 3
    /\ ~StartsWith(resp.resources[1].uri, TosPrefix \o lrBuckets[1] \o <<"/">>)
    /\ \E i \in 1..Len(resp.resources) :
          resp.resources[i].name = <<"B", ".", "T", "X", "T">> /\ resp.resources[i].mimeType = "text/plain"

\* C10: read_resource parses the URI list_resources builds for (bucket, key)
\* back into that bucket and key, keys with "/" included, and so fetches
\* the object listed; "tos://<bucket>" with no "/" fails with no SDK call.
C10_UriRoundTrip ==
    /\ Responded("read_resource") =>
          /\ \A b \in UriBuckets, k \in UriKeys :
                req.uri = TosPrefix \o b \o <<"/">> \o k =>
                    /\ Len(calls) = 1
                    /\ calls[1].api = "get_object"
                    /\ calls[1].bucket = b
                    /\ calls[1].key = k
          /\ \A b \in UriBuckets :
                req.uri = TosPrefix \o b => (resp.kind = "raise" /\ calls = <<>>)
    /\ (Responded("list_resources") /\ resp.kind = "return") =>
          \A i \in 1..Len(resp.resources) :
              LET r == read_resource(resp.resources[i].uri, "none") IN
              /\ Len(r.calls) = 1
              /\ r.calls[1].key = resp.resources[i].name
              /\ r.calls[1].bucket \in Range(lrBuckets)
              /\ r.calls[1].status = 200

\* C10's case: the URI of an object whose key holds "/" was read.
C10_Witness ==
    /\ Responded("read_resource")
    /\ req.uri = <<"t", "o", "s", ":", "/", "/", "c", "/", "d", "/", "e", ".", "m", "d">>
    /\ resp.kind = "return"

-----------------------------------------------------------------------------
Next ==
    \/ \E f \in Faults : ListBuckets(f)
    \/ \E f \in Faults : ListResourcesStart(f)
    \/ \E i \in 1..MaxBuckets, f \in Faults : ProcessBucket(i, f)
    \/ ListResourcesRaise
    \/ ListResourcesReturn
    \/ \E u \in UriInputs, f \in Faults : ReadResource(u, f)
    \/ \E b \in ToolBuckets, k \in ToolKeys, f \in Faults : GetObject(b, k, f)
    \/ \E n \in ToolNames, b \in ToolBuckets, k \in ToolKeys, f \in ToolFaults :
          CallTool(n, b, k, f)
    \/ Respond

Spec == Init /\ [][Next]_vars

====
